---- MODULE Spec2Model ----
(***************************************************************************)
(* Model of crudster.py: a tornado request handler (CRUDRequestHandler)    *)
(* offering POST / GET / PUT / DELETE over one MongoDB collection.         *)
(*                                                                         *)
(* Python values are records [type, val]; a Python str is a sequence of    *)
(* one-character strings, a dict is a function from str keys to values, a  *)
(* UUID is its 16 bytes.  JSON texts are modelled by their syntax tree,    *)
(* records [type, val] with the JSON type names.                           *)
(***************************************************************************)
EXTENDS Integers, Sequences, FiniteSets, TLC

----------------------------------------------------------------------------
(* Bounds of the model *)

\* number of requests that can be in flight at once
NumHandlers == 2
\* number of requests issued over a behaviour
MaxRequests == 3
\* number of distinct os.urandom(16) outcomes uuid4() can draw
NumRandom == 2
\* number of store operations that may fail over a behaviour
MaxFailures == 1
\* number of documents one cursor batch holds
BatchSize == 1
\* number of requests issued over a behaviour whose liveness is checked
MaxLive == 2

----------------------------------------------------------------------------
(* Python values *)

None == [type |-> "NoneType", val |-> 0]
PyInt(n) == [type |-> "int", val |-> n]
PyStr(s) == [type |-> "str", val |-> s]
PyBool(b) == [type |-> "bool", val |-> b]
PyList(s) == [type |-> "list", val |-> s]
PyDict(f) == [type |-> "dict", val |-> f]
PyUUID(b) == [type |-> "UUID", val |-> b]
PyObjectId(n) == [type |-> "ObjectId", val |-> n]

EmptyDict == PyDict([k \in {} |-> None])

\* dict(k1=v1)
Dict1(k1, v1) == PyDict([k \in {k1} |-> v1])
\* dict(k1=v1, k2=v2)
Dict2(k1, v1, k2, v2) == PyDict([k \in {k1, k2} |-> IF k = k1 THEN v1 ELSE v2])

\* d[k] = v on a dict
DictSet(d, k1, v1) ==
    PyDict([k \in DOMAIN d.val \cup {k1} |-> IF k = k1 THEN v1 ELSE d.val[k]])

\* Python truth value of an object, as `if obj:` takes it
Truthy(v) ==
    CASE v.type = "NoneType" -> FALSE
      [] v.type = "int" -> v.val # 0
      [] v.type = "bool" -> v.val
      [] v.type = "str" -> Len(v.val) > 0
      [] v.type = "list" -> Len(v.val) > 0
      [] v.type = "dict" -> DOMAIN v.val # {}
      [] OTHER -> TRUE

\* string literals of the source
K_uuid == <<"u", "u", "i", "d">>
K_document == <<"d", "o", "c", "u", "m", "e", "n", "t">>
K_id == <<"_", "i", "d">>
K_status_code == <<"s", "t", "a", "t", "u", "s", "_", "c", "o", "d", "e">>
K_reason == <<"r", "e", "a", "s", "o", "n">>
\* the key of the identifier in the response to POST, as the specification
\* of the interface has it
K_ident == <<"i", "d">>

----------------------------------------------------------------------------
(* JSON texts *)

JNull == [type |-> "null", val |-> 0]
JNum(n) == [type |-> "number", val |-> n]
JBool(b) == [type |-> "boolean", val |-> b]
JStr(s) == [type |-> "string", val |-> s]
JArr(s) == [type |-> "array", val |-> s]
JObj(f) == [type |-> "object", val |-> f]
\* the output of json.dumps on an object it cannot serialise (TypeError)
JTypeError == [type |-> "TypeError", val |-> 0]

\* json.loads on a well-formed text
RECURSIVE json_loads(_)
json_loads(j) ==
    CASE j.type = "object" -> PyDict([k \in DOMAIN j.val |-> json_loads(j.val[k])])
      [] j.type = "array" -> PyList([i \in DOMAIN j.val |-> json_loads(j.val[i])])
      [] j.type = "string" -> PyStr(j.val)
      [] j.type = "number" -> PyInt(j.val)
      [] j.type = "boolean" -> PyBool(j.val)
      [] OTHER -> None

\* tornado.escape.json_decode on a request body: the decoded value, or the
\* ValueError json.loads raises on a text that is not JSON
json_decode(body) ==
    IF body.wf THEN [raised |-> "none", value |-> json_loads(body.json)]
    ELSE [raised |-> "ValueError", value |-> None]

HexDigits == <<"0", "1", "2", "3", "4", "5", "6", "7",
               "8", "9", "a", "b", "c", "d", "e", "f">>

\* UUID.hex: '%032x' % self.int
UUID_hex(u) ==
    [i \in 1..32 |->
        LET b == u.val[(i + 1) \div 2]
        IN  HexDigits[(IF i % 2 = 1 THEN b \div 16 ELSE b % 16) + 1]]

\* _JSONEncoder.default: a UUID is written as its hex, any other object is
\* left to json.JSONEncoder.default, which raises TypeError
JSONEncoder_default(obj) ==
    IF obj.type = "UUID" THEN [raised |-> "none", value |-> PyStr(UUID_hex(obj))]
    ELSE [raised |-> "TypeError", value |-> None]

\* json.dumps(document, cls=_JSONEncoder)
RECURSIVE json_dumps(_)
json_dumps(v) ==
    CASE v.type = "dict" -> JObj([k \in DOMAIN v.val |-> json_dumps(v.val[k])])
      [] v.type = "list" -> JArr([i \in DOMAIN v.val |-> json_dumps(v.val[i])])
      [] v.type = "str" -> JStr(v.val)
      [] v.type = "int" -> JNum(v.val)
      [] v.type = "bool" -> JBool(v.val)
      [] v.type = "NoneType" -> JNull
      [] OTHER -> LET d == JSONEncoder_default(v)
                  IN  IF d.raised = "none" THEN json_dumps(d.value) ELSE JTypeError

----------------------------------------------------------------------------
(* Identifiers *)

\* the i-th outcome of os.urandom(16)
urandom(i) == [k \in 1..16 |-> (i * 37 + k * 11) % 256]

\* uuid.uuid4() on 16 random bytes: version nibble 4, variant bits 10
uuid4(rand) ==
    PyUUID([k \in 1..16 |->
        IF k = 7 THEN (rand[k] % 16) + 64
        ELSE IF k = 9 THEN (rand[k] % 64) + 128
        ELSE rand[k]])

HexValue(c) == CHOOSE d \in 0..15 : HexDigits[d + 1] = c

\* uuid.UUID(hex): TypeError on None, else the 16 bytes the 32 digits spell
UUID(h) ==
    IF h.type # "str" THEN [raised |-> "TypeError", value |-> None]
    ELSE IF Len(h.val) # 32 THEN [raised |-> "ValueError", value |-> None]
    ELSE [raised |-> "none",
          value |-> PyUUID([k \in 1..16 |->
              HexValue(h.val[2 * k - 1]) * 16 + HexValue(h.val[2 * k])])]

IsHex(c) == \E d \in 1..16 : HexDigits[d] = c

\* the group of the route: [0-9a-f]{12}4[0-9a-f]{3}[89ab][0-9a-f]{15}
MatchesGroup(seg) ==
    /\ Len(seg) = 32
    /\ \A i \in 1..12 : IsHex(seg[i])
    /\ seg[13] = "4"
    /\ \A i \in 14..16 : IsHex(seg[i])
    /\ seg[17] \in {"8", "9", "a", "b"}
    /\ \A i \in 18..32 : IsHex(seg[i])

\* the route of Crudster.start on the part of the path after api_prefix:
\* the optional group matches or the route does not
RouteMatches(seg) == seg = <<>> \/ MatchesGroup(seg)

\* the argument the handler's verb method gets: the group, None if unmatched
RouteGroup(seg) == IF seg = <<>> THEN None ELSE PyStr(seg)

----------------------------------------------------------------------------
(* The collection of the document store (motor / MongoDB) *)

\* positions of the documents of coll that match the filter {"uuid": u}
Matching(coll, u) == {i \in 1..Len(coll) : coll[i].val[K_uuid] = u}

First(S) == CHOOSE i \in S : \A j \in S : i <= j

\* some created unique index rejects doc (DuplicateKeyError)
Duplicate(coll, idx, doc) ==
    \E x \in idx : /\ x.unique
                   /\ x.key \in DOMAIN doc.val
                   /\ \E i \in 1..Len(coll) :
                        /\ x.key \in DOMAIN coll[i].val
                        /\ coll[i].val[x.key] = doc.val[x.key]

\* collection.insert_one(doc): the store appends doc under a new _id
insert_one(coll, idx, doc, oid) ==
    IF Duplicate(coll, idx, doc)
    THEN [coll |-> coll, raised |-> "DuplicateKeyError", value |-> None]
    ELSE [coll |-> Append(coll, DictSet(doc, K_id, PyObjectId(oid))),
          raised |-> "none", value |-> PyObjectId(oid)]

\* collection.find_one({"uuid": u}): the first match, or None
find_one(coll, u) ==
    [coll |-> coll, raised |-> "none",
     value |-> IF Matching(coll, u) = {} THEN None
               ELSE coll[First(Matching(coll, u))]]

\* update with {"$set": fields} applied to one document
ApplySet(doc, fields) ==
    PyDict([k \in DOMAIN doc.val \cup DOMAIN fields.val |->
        IF k \in DOMAIN fields.val THEN fields.val[k] ELSE doc.val[k]])

\* find_one_and_update as it would be with upsert=True: a filter that
\* matches nothing inserts the filter's fields with the update applied
find_one_and_update_upsert(coll, u, fields) ==
    IF Matching(coll, u) = {}
    THEN [coll |-> Append(coll, ApplySet(Dict2(K_uuid, u, K_id, PyObjectId(0)), fields)),
          raised |-> "none", value |-> None]
    ELSE LET i == First(Matching(coll, u))
         IN  [coll |-> [coll EXCEPT ![i] = ApplySet(@, fields)],
              raised |-> "none", value |-> coll[i]]

\* find_one_and_update as it would be if it left the document it matched as
\* it was and added the updated one to the collection
find_one_and_update_copying(coll, u, fields) ==
    IF Matching(coll, u) = {}
    THEN [coll |-> coll, raised |-> "none", value |-> None]
    ELSE LET i == First(Matching(coll, u))
         IN  [coll |-> Append(coll, ApplySet(coll[i], fields)),
              raised |-> "none", value |-> coll[i]]

\* collection.find_one_and_update({"uuid": u}, {"$set": fields}): no upsert,
\* returns the document as it was before the update, or None
find_one_and_update(coll, u, fields) ==
    IF Matching(coll, u) = {}
    THEN [coll |-> coll, raised |-> "none", value |-> None]
    ELSE LET i == First(Matching(coll, u))
         IN  [coll |-> [coll EXCEPT ![i] = ApplySet(@, fields)],
              raised |-> "none", value |-> coll[i]]

\* collection.delete_one({"uuid": u}): value is result.deleted_count
delete_one(coll, u) ==
    IF Matching(coll, u) = {}
    THEN [coll |-> coll, raised |-> "none", value |-> PyInt(0)]
    ELSE LET i == First(Matching(coll, u))
         IN  [coll |-> SubSeq(coll, 1, i - 1) \o SubSeq(coll, i + 1, Len(coll)),
              raised |-> "none", value |-> PyInt(1)]

\* the documents a cursor that last returned _id `last` has still to return
Remaining(coll, last) == SelectSeq(coll, LAMBDA d : d.val[K_id].val > last)

\* collection.find(): a cursor that has sent nothing to the store yet
find == [last |-> 0, buffer |-> <<>>, alive |-> TRUE]

\* the store's reply to the query or getMore of a cursor: the next batch in
\* natural order; the cursor stays alive while documents remain
get_more(coll, cursor) ==
    LET rest == Remaining(coll, cursor.last)
        n == IF Len(rest) < BatchSize THEN Len(rest) ELSE BatchSize
    IN  [last |-> IF n = 0 THEN cursor.last ELSE rest[n].val[K_id].val,
         buffer |-> SubSeq(rest, 1, n),
         alive |-> Len(rest) > n]

\* two documents of coll have the same value under the key of the unique
\* index decl
Clashing(coll, decl) ==
    /\ decl.unique
    /\ \E i, j \in 1..Len(coll) :
          /\ i # j
          /\ decl.key \in DOMAIN coll[i].val
          /\ decl.key \in DOMAIN coll[j].val
          /\ coll[i].val[decl.key] = coll[j].val[decl.key]

\* collection.create_index(*args, **kwargs): creating an index that exists
\* changes nothing; a unique index is refused while two documents clash
create_index(coll, idx, decl) ==
    IF decl \notin idx /\ Clashing(coll, decl)
    THEN [idx |-> idx, raised |-> "DuplicateKeyError", value |-> None]
    ELSE [idx |-> idx \cup {decl}, raised |-> "none", value |-> None]

----------------------------------------------------------------------------
(* State *)

VARIABLES
    \* the documents of the collection, in natural (insertion) order
    collection,
    \* the indices created on the collection
    indices,
    \* the next ObjectId the store assigns
    next_oid,
    \* the application settings the handler reads: serve_traceback, index_args
    settings,
    \* which validate_document the handler class has: "default", "subclass"
    validator,
    \* the handlers of the requests in flight, one per connection slot
    req,
    \* the handler of the request the last step has answered, as it was when
    \* it finished; Idle when the last step answered none
    response,
    \* the UUIDs of uuid4() that a post has sent to insert_one, and those of
    \* the resources the database held at the start
    generated,
    \* number of requests issued
    nreq,
    \* number of store operations that failed
    nfail,
    \* the drop_database that Crudster.initialize has sent and not awaited is
    \* still to be executed
    dropping,
    \* what the clients have seen so far (history, read by no handler)
    hist

vars == <<collection, indices, next_oid, settings, validator, req, response,
          generated, nreq, nfail, dropping, hist>>

Handlers == 1..NumHandlers

----------------------------------------------------------------------------
(* tornado.web.RequestHandler: response state and error path *)

NoBody == [wf |-> FALSE, json |-> JNull]
NoCall == [op |-> "none", a1 |-> None, a2 |-> None]
NoReply == [state |-> "none", raised |-> "none", value |-> None]
NoExc == [raised |-> "none", status_code |-> 0]
\* history: nothing is known of the resource a request names
NoExpect == [state |-> "untouched", doc |-> JNull]

DefaultContentType == "text/html; charset=UTF-8"

\* a handler object as tornado builds it for a request
NewHandler(method, seg, body) ==
    [pc |-> "start", method |-> method, seg |-> seg, body |-> body,
     uuid |-> None, document |-> None, result |-> None, k |-> 0,
     cursor |-> find, documents |-> None,
     call |-> NoCall, reply |-> NoReply, exc |-> NoExc,
     \* the coroutines that have yielded the coroutine that runs: 1 while
     \* the verb method waits for create_indices, get_one_document or
     \* get_many_documents
     depth |-> 0,
     status |-> 200, content_type |-> DefaultContentType,
     written |-> <<>>, finished |-> 0,
     \* history of the request: store operations issued, no other request in
     \* flight with it, no other PUT or DELETE on its identifier in flight
     \* with it, and what was known of its identifier when it arrived
     ops |-> 0, alone |-> TRUE, sole |-> TRUE, expected |-> NoExpect,
     gone |-> FALSE, existed |-> FALSE,
     \* and of its last store operation: a resource with its identifier was
     \* in the collection, the operation left the set of identifiers as it was
     present |-> FALSE, ids_kept |-> TRUE,
     \* the other DELETEs on its identifier in flight with it and the status
     \* of the one answered last, what its store operations did to the
     \* collection, and the (identifier, document) pairs the collection has
     \* held since the request arrived (kept for a GET without identifier)
     rivals |-> 0, rival_status |-> 0, effect |-> "none", seen |-> {}]

\* a slot no request has used yet
Idle == [NewHandler("", <<>>, NoBody) EXCEPT !.pc = "idle"]

\* http.client.responses[status]
Responses(status) ==
    CASE status = 200 -> <<"O", "K">>
      [] status = 400 -> <<"B", "a", "d", " ", "R", "e", "q", "u", "e", "s", "t">>
      [] status = 404 -> <<"N", "o", "t", " ", "F", "o", "u", "n", "d">>
      [] OTHER -> <<"I", "n", "t", "e", "r", "n", "a", "l", " ", "S", "e", "r",
                    "v", "e", "r", " ", "E", "r", "r", "o", "r">>

\* `raise E`: the coroutine stops with exception E
Raise(self, name, code) ==
    [self EXCEPT !.pc = "raised", !.exc = [raised |-> name, status_code |-> code]]

\* the store operations that a coroutine called by the verb method yields
NestedOps == {"create_index", "find_one", "get_more"}

\* `yield collection.op(a1, a2)`: the coroutine waits for the store
Await(self, op, a1, a2) ==
    [self EXCEPT !.pc = "await", !.call = [op |-> op, a1 |-> a1, a2 |-> a2],
                 !.reply = NoReply, !.ops = @ + 1,
                 !.depth = IF op \in NestedOps THEN 1 ELSE 0]

\* the coroutine returns, unless an exception is on its way out of it
Return(self) == IF self.pc = "raised" THEN self ELSE [self EXCEPT !.pc = "returned"]

\* RequestHandler.finish
finish(self) == [self EXCEPT !.finished = @ + 1]

RECURSIVE HasTypeError(_)
HasTypeError(j) ==
    CASE j.type = "TypeError" -> TRUE
      [] j.type = "object" -> \E k \in DOMAIN j.val : HasTypeError(j.val[k])
      [] j.type = "array" -> \E i \in DOMAIN j.val : HasTypeError(j.val[i])
      [] OTHER -> FALSE

\* CRUDRequestHandler.write_json
write_json(self, document) ==
    LET s1 == [self EXCEPT !.content_type = "application/json; charset=UTF-8"]
        text == json_dumps(document)
    IN  IF HasTypeError(text) THEN Raise(s1, "TypeError", 500)
        ELSE [s1 EXCEPT !.written = Append(@, text)]

\* CRUDRequestHandler.write_dict(*args, **kwargs)
write_dict(self, args, kwargs) ==
    IF Len(args) > 0
    THEN IF Len(args) = 1 /\ args[1].type = "dict"
         THEN write_json(self, args[1])
         ELSE Raise(self, "ValueError", 500)
    ELSE write_json(self, kwargs)

\* write_error as it would be if it did not read the serve_traceback setting
write_error_traceback(self, status_code, serve_traceback, exc_info) ==
    finish([self EXCEPT
        !.content_type = "text/plain",
        !.written = Append(@, [type |-> "traceback", val |-> self.exc.raised])])

\* CRUDRequestHandler.write_error(status_code, **kwargs): exc_info says
\* that kwargs has the key "exc_info"
write_error(self, status_code, serve_traceback, exc_info) ==
    IF serve_traceback /\ exc_info
    THEN finish([self EXCEPT
            !.content_type = "text/plain",
            !.written = Append(@, [type |-> "traceback", val |-> self.exc.raised])])
    ELSE finish(write_dict(self, <<>>,
            Dict2(K_status_code, PyInt(status_code),
                  K_reason, PyStr(Responses(self.status)))))

\* send_error as it would be if it finished the response whether or not
\* write_error has done so
send_error_finishes_again(self, status_code, serve_traceback, exc_info) ==
    finish(write_error([self EXCEPT !.written = <<>>,
                                    !.content_type = DefaultContentType,
                                    !.status = status_code],
                       status_code, serve_traceback, exc_info))

\* RequestHandler.send_error(status_code, **kwargs): clear the response, set
\* the status, write_error(status_code, **kwargs)
send_error(self, status_code, serve_traceback, exc_info) ==
    LET cleared == [self EXCEPT !.written = <<>>,
                                !.content_type = DefaultContentType,
                                !.status = status_code]
        w == write_error(cleared, status_code, serve_traceback, exc_info)
    IN  IF w.finished = 0 THEN finish(w) ELSE w

\* RequestHandler._execute once the verb method has stopped: an HTTPError
\* is answered with its status, any other exception with 500, both by
\* send_error(status, exc_info=sys.exc_info()); a normal return finishes the
\* response
Settle(self, serve_traceback) ==
    CASE self.pc = "raised" ->
            [send_error(self,
                        IF self.exc.raised = "HTTPError"
                        THEN self.exc.status_code ELSE 500,
                        serve_traceback, TRUE)
             EXCEPT !.pc = "done"]
      [] self.pc = "returned" ->
            [(IF self.finished = 0 THEN finish(self) ELSE self)
             EXCEPT !.pc = "done"]
      [] OTHER -> self

\* the application has no route for the path: tornado's ErrorHandler raises
\* HTTPError(404), which RequestHandler.write_error (not the one of
\* CRUDRequestHandler) answers with the traceback or with an HTML page
NoRoute(self, serve_traceback) ==
    IF serve_traceback
    THEN [self EXCEPT !.pc = "done", !.status = 404, !.finished = 1,
                      !.content_type = "text/plain",
                      !.written = <<[type |-> "traceback", val |-> "HTTPError"]>>]
    ELSE [self EXCEPT !.pc = "done", !.status = 404, !.finished = 1,
                      !.written = <<[type |-> "html", val |-> 404]>>]

----------------------------------------------------------------------------
(* CRUDRequestHandler: the verb methods, one operator per stretch of code   *)
(* between two yields                                                       *)

\* validate_document: the default accepts every document; the subclass
\* stands for an override, one that rejects a document that is no object
validate_document(document, hook) ==
    IF hook = "subclass" /\ document.type # "dict"
    THEN [raised |-> "HTTPError", status_code |-> 400]
    ELSE NoExc

\* decode_and_validate_document as it would be if it left the hook out
decode_unvalidated(self, hook) ==
    LET d == json_decode(self.body)
    IN  IF d.raised # "none"
        THEN [exc |-> [raised |-> d.raised, status_code |-> 500], document |-> None]
        ELSE [exc |-> NoExc, document |-> d.value]

\* decode_and_validate_document: the decoded body, or what was raised
decode_and_validate_document(self, hook) ==
    LET d == json_decode(self.body)
    IN  IF d.raised # "none"
        THEN [exc |-> [raised |-> d.raised, status_code |-> 500], document |-> None]
        ELSE [exc |-> validate_document(d.value, hook), document |-> d.value]

\* post as it would be if it decoded the body before it looked at the path
post_decodes_first(self, rand, hook) ==
    LET d == decode_and_validate_document(self, hook)
    IN  IF d.exc.raised # "none" THEN Raise(self, d.exc.raised, d.exc.status_code)
        ELSE IF Truthy(self.uuid) THEN Raise(self, "HTTPError", 400)
        ELSE LET s1 == [self EXCEPT !.uuid = uuid4(rand), !.document = d.document]
             IN  Await(s1, "insert_one",
                       Dict2(K_document, d.document, K_uuid, s1.uuid), None)

\* post, up to `yield self.collection.insert_one(...)`
post(self, rand, hook) ==
    IF Truthy(self.uuid) THEN Raise(self, "HTTPError", 400)
    ELSE LET s1 == [self EXCEPT !.uuid = uuid4(rand)]
             d == decode_and_validate_document(s1, hook)
         IN  IF d.exc.raised # "none"
             THEN Raise(s1, d.exc.raised, d.exc.status_code)
             ELSE Await([s1 EXCEPT !.document = d.document], "insert_one",
                        Dict2(K_document, d.document, K_uuid, s1.uuid), None)

\* create_indices as it would be if it created no index
create_indices_skipped(self, index_args) == Return(self)

\* the for loop of create_indices, up to its next yield or to its end
create_indices(self, index_args) ==
    IF self.k < Len(index_args)
    THEN Await([self EXCEPT !.k = @ + 1], "create_index",
               index_args[self.k + 1], None)
    ELSE Return(self)

\* post, resumed from `yield self.create_indices()`: what create_indices
\* has raised goes on out of post, else write_dict(uuid=uuid)
post_created(self) ==
    LET s1 == [self EXCEPT !.depth = 0]
    IN  IF s1.pc = "raised" THEN s1
        ELSE Return(write_dict(s1, <<>>, Dict1(K_uuid, s1.uuid)))

\* post, after insert_one has answered: create_indices is called and runs
\* to its first yield; with no index to create it returns at once and post
\* goes on
post_inserted(self, index_args) ==
    IF self.reply.raised # "none" THEN Raise(self, self.reply.raised, 500)
    ELSE LET c == create_indices([self EXCEPT !.result = self.reply.value],
                                 index_args)
         IN  IF c.pc = "await" THEN c ELSE post_created(c)

\* create_indices, after a create_index has answered
post_indexed(self, index_args) ==
    IF self.reply.raised # "none" THEN Raise(self, self.reply.raised, 500)
    ELSE create_indices(self, index_args)

\* get_one_document, up to `yield self.collection.find_one(...)`
get_one_document(self) ==
    LET u == UUID(self.uuid)
    IN  IF u.raised # "none" THEN Raise(self, u.raised, 500)
        ELSE Await(self, "find_one", u.value, None)

\* get_one_document, after find_one has answered
get_one_document_found(self) ==
    IF self.reply.raised # "none" THEN Raise(self, self.reply.raised, 500)
    ELSE LET s1 == [self EXCEPT !.result = self.reply.value]
         IN  IF Truthy(s1.result)
             THEN Return(write_dict(s1, <<s1.result.val[K_document]>>, EmptyDict))
             ELSE Raise(s1, "HTTPError", 404)

\* fetch_next as it would be if it took the identifier of a result for its
\* document
RECURSIVE fetch_next_keyed(_)
fetch_next_keyed(self) ==
    IF Len(self.cursor.buffer) > 0
    THEN LET result == Head(self.cursor.buffer)
         IN  fetch_next_keyed([self EXCEPT
                 !.result = result,
                 !.cursor.buffer = Tail(@),
                 !.documents = DictSet(@, UUID_hex(result.val[K_uuid]),
                                       result.val[K_uuid])])
    ELSE IF self.cursor.alive
    THEN Await(self, "get_more", None, None)
    ELSE Return(write_dict(self, <<self.documents>>, EmptyDict))

\* the while loop of get_many_documents from a `cursor.fetch_next`: a
\* buffered document is taken without waiting, an empty buffer of a live
\* cursor asks the store, a dead cursor ends the loop
RECURSIVE fetch_next(_)
fetch_next(self) ==
    IF Len(self.cursor.buffer) > 0
    THEN LET result == Head(self.cursor.buffer)
         IN  fetch_next([self EXCEPT
                 !.result = result,
                 !.cursor.buffer = Tail(@),
                 !.documents = DictSet(@, UUID_hex(result.val[K_uuid]),
                                       result.val[K_document])])
    ELSE IF self.cursor.alive
    THEN Await(self, "get_more", None, None)
    ELSE Return(write_dict(self, <<self.documents>>, EmptyDict))

\* get_many_documents, up to the first `yield cursor.fetch_next`
get_many_documents(self) ==
    fetch_next([self EXCEPT !.cursor = find, !.documents = EmptyDict])

\* get_many_documents, after the store has answered a fetch
get_many_documents_fetched(self) ==
    IF self.reply.raised # "none" THEN Raise(self, self.reply.raised, 500)
    ELSE fetch_next([self EXCEPT !.cursor = self.reply.value])

\* get, up to the first yield of get_one_document or get_many_documents
get(self) ==
    IF Truthy(self.uuid) THEN get_one_document(self)
    ELSE get_many_documents(self)

\* get, resumed from `yield self.get_one_document(uuid)` or from
\* `yield self.get_many_documents()`: it ends as they have ended
get_resumed(self) == [self EXCEPT !.depth = 0]

\* put as it would be if it decoded the body before it looked at the path
put_decodes_first(self, hook) ==
    LET d == decode_and_validate_document(self, hook)
        u == UUID(self.uuid)
    IN  IF d.exc.raised # "none" THEN Raise(self, d.exc.raised, d.exc.status_code)
        ELSE IF ~Truthy(self.uuid) THEN Raise(self, "HTTPError", 400)
        ELSE IF u.raised # "none" THEN Raise(self, u.raised, 500)
        ELSE Await([self EXCEPT !.document = d.document],
                   "find_one_and_update", u.value, Dict1(K_document, d.document))

\* put, up to `yield self.collection.find_one_and_update(...)`
put(self, hook) ==
    IF ~Truthy(self.uuid) THEN Raise(self, "HTTPError", 400)
    ELSE LET d == decode_and_validate_document(self, hook)
             u == UUID(self.uuid)
         IN  IF d.exc.raised # "none"
             THEN Raise(self, d.exc.raised, d.exc.status_code)
             ELSE IF u.raised # "none" THEN Raise(self, u.raised, 500)
             ELSE Await([self EXCEPT !.document = d.document],
                        "find_one_and_update", u.value,
                        Dict1(K_document, d.document))

\* put, after find_one_and_update has answered
put_updated(self) ==
    IF self.reply.raised # "none" THEN Raise(self, self.reply.raised, 500)
    ELSE LET s1 == [self EXCEPT !.result = self.reply.value]
         IN  IF Truthy(s1.result)
             THEN Return(write_dict(s1, <<>>, EmptyDict))
             ELSE Raise(s1, "HTTPError", 404)

\* delete, up to `yield self.collection.delete_one(...)`
delete(self) ==
    LET u == UUID(self.uuid)
    IN  IF u.raised # "none" THEN Raise(self, u.raised, 500)
        ELSE Await(self, "delete_one", u.value, None)

\* delete as it would be if it took a failure of delete_one for a result
\* that says nothing was deleted
delete_deleted_lenient(self) ==
    LET s1 == [self EXCEPT !.result = self.reply.value]
    IN  IF s1.result.val = 1
        THEN Return(write_dict(s1, <<>>, EmptyDict))
        ELSE Raise(s1, "HTTPError", 404)

\* delete, after delete_one has answered
delete_deleted(self) ==
    IF self.reply.raised # "none" THEN Raise(self, self.reply.raised, 500)
    ELSE LET s1 == [self EXCEPT !.result = self.reply.value]
         IN  IF s1.result.val = 1
             THEN Return(write_dict(s1, <<>>, EmptyDict))
             ELSE Raise(s1, "HTTPError", 404)

\* tornado calls the method of the handler that the request names
Dispatch(self, rand, hook) ==
    CASE self.method = "POST" -> post(self, rand, hook)
      [] self.method = "GET" -> get(self)
      [] self.method = "PUT" -> put(self, hook)
      [] self.method = "DELETE" -> delete(self)

----------------------------------------------------------------------------
(* The requests a client can send *)

Methods == {"POST", "GET", "PUT", "DELETE"}

\* the identifiers uuid4() can return in the model
Identifiers == {uuid4(urandom(i)) : i \in 1..NumRandom}

\* their canonical strings
IdSegs == {UUID_hex(u) : u \in Identifiers}

\* a segment that is 32 hex digits but no version-4 UUID
Malformed == UUID_hex(PyUUID(urandom(1)))

\* what follows api_prefix in the path: nothing, an identifier, a non-identifier
Paths == {<<>>} \cup IdSegs \cup {Malformed}

K_a == <<"a">>

\* the JSON texts {"a": 1} and [1]
JsonTexts ==
    {JObj([k \in {K_a} |-> JNum(1)]),
     JArr(<<JNum(1)>>)}

\* request bodies: JSON texts, and a body that is not JSON
Bodies(method) ==
    IF method \in {"POST", "PUT"}
    THEN {NoBody} \cup {[wf |-> TRUE, json |-> j] : j \in JsonTexts}
    ELSE {NoBody}

\* the outcomes of os.urandom(16) in uuid4(): nothing keeps it from giving
\* the bytes it has given before
Randoms == 1..NumRandom

IndexDeclarations == <<[key |-> K_uuid, unique |-> TRUE]>>

\* the settings Crudster.start passes to the application (db and
\* collection_name only: no index_args, no serve_traceback) and the handler
\* class it mounts
Shipped ==
    [serve_traceback |-> FALSE, index_args |-> <<>>, validator |-> "default"]

\* what CRUDRequestHandler reads of the application that mounts it: as
\* shipped, or with an index declared in the settings, tracebacks served
\* and validate_document overridden in a subclass
Configurations ==
    {Shipped,
     [serve_traceback |-> TRUE, index_args |-> IndexDeclarations,
      validator |-> "subclass"]}

----------------------------------------------------------------------------
(* History *)

Void == [state |-> "void", doc |-> JNull]

InFlight(q) == req[q].pc # "idle"

\* the handler writes to one resource
Writer(h) == h.method \in {"PUT", "DELETE"} /\ h.seg \in IdSegs

\* the documents of the collection that carry identifier seg
Stored(coll, seg) == {i \in 1..Len(coll) : UUID_hex(coll[i].val[K_uuid]) = seg}

\* the handler is a DELETE on identifier seg
Deleter(h, seg) == h.method = "DELETE" /\ seg \in IdSegs /\ h.seg = seg

\* the handler lists the collection
Lister(h) == h.method = "GET" /\ h.seg = <<>>

\* the (identifier, document) pairs of the collection
Pairs(coll) ==
    {<<UUID_hex(coll[i].val[K_uuid]), coll[i].val[K_document]>> : i \in 1..Len(coll)}

\* what the handlers in flight have seen once handler s has run and the
\* collection is `after`
Noted(hs, s, after) ==
    [q \in Handlers |->
        IF hs[q].pc \in {"idle", "done"} THEN hs[q]
        ELSE [hs[q] EXCEPT
                !.seen = IF Lister(hs[q]) THEN @ \cup Pairs(after) ELSE @,
                !.rival_status = IF s.pc = "done" /\ Deleter(s, hs[q].seg)
                                    /\ Deleter(hs[q], s.seg)
                                 THEN s.status ELSE @]]

\* a request arrives
Arrive(hs, h) ==
    [hs EXCEPT !.expect = IF Writer(h) THEN [@ EXCEPT ![h.seg] = Void] ELSE @,
               !.any_delete = @ \/ h.method = "DELETE"]

\* the identifier a POST response carries
ReturnedId(s) == s.written[1].val[K_uuid].val

\* a request is answered
Answer(hs, s) ==
    CASE s.method = "POST" /\ s.status = 200 ->
            [hs EXCEPT !.issued = Append(@, ReturnedId(s)),
                       !.reissued = @ \/ s.gone,
                       !.expect = IF ReturnedId(s) \in DOMAIN @
                                     /\ @[ReturnedId(s)].state = "untouched"
                                  THEN [@ EXCEPT ![ReturnedId(s)] =
                                          [state |-> "POST", doc |-> s.body.json]]
                                  ELSE @]
      [] s.method = "POST" /\ s.status # 200 ->
            [hs EXCEPT !.post_not_ok = TRUE]
      [] s.method = "PUT" /\ s.status = 200 /\ s.sole ->
            [hs EXCEPT !.expect[s.seg] = [state |-> "PUT", doc |-> s.body.json]]
      [] s.method = "DELETE" /\ s.status = 200 ->
            [hs EXCEPT !.deleted = @ \cup {s.seg},
                       !.ok_deletes[s.seg] = @ + 1]
      [] OTHER -> hs

\* the handler of an arriving request, with what is known as it arrives
Arriving(method, seg, body) ==
    [NewHandler(method, seg, body) EXCEPT
        !.alone = \A q \in Handlers : ~InFlight(q),
        !.sole = \A q \in Handlers : ~(Writer(req[q]) /\ req[q].seg = seg),
        !.expected = IF seg \in IdSegs THEN hist.expect[seg] ELSE NoExpect,
        !.gone = seg \in hist.deleted,
        !.existed = Stored(collection, seg) # {},
        !.rivals = Cardinality({q \in Handlers : InFlight(q) /\ method = "DELETE"
                                                  /\ Deleter(req[q], seg)}),
        !.seen = IF method = "GET" /\ seg = <<>> THEN Pairs(collection) ELSE {}]

\* the handlers in flight, once request h has arrived next to them
Joined(h) ==
    [q \in Handlers |->
        IF ~InFlight(q) THEN req[q]
        ELSE [req[q] EXCEPT
                !.alone = FALSE,
                !.sole = @ /\ ~(Writer(h) /\ h.seg = req[q].seg),
                !.expected = IF Writer(h) /\ h.seg = req[q].seg THEN Void ELSE @,
                !.rivals = IF Deleter(h, req[q].seg) /\ Deleter(req[q], h.seg)
                           THEN @ + 1 ELSE @]]

----------------------------------------------------------------------------
(* Actions *)

\* The application started on a database that holds data: the resource an
\* earlier run of the application has stored under the first identifier
Stocked ==
    <<DictSet(Dict2(K_document, json_loads(JObj([k \in {K_a} |-> JNum(1)])),
                    K_uuid, uuid4(urandom(1))),
              K_id, PyObjectId(1))>>

\* the application has started: the database holds coll, the handler is
\* mounted under one of the configurations confs, and drop tells whether
\* Crudster.initialize has sent a drop_database
Start(coll, confs, drop) ==
    /\ collection = coll
    /\ indices = {}
    /\ next_oid = Len(coll) + 1
    /\ \E c \in confs :
          /\ settings = [serve_traceback |-> c.serve_traceback,
                         index_args |-> c.index_args]
          /\ validator = c.validator
    /\ req = [r \in Handlers |-> Idle]
    /\ response = Idle
    /\ generated = {coll[i].val[K_uuid] : i \in 1..Len(coll)}
    /\ nreq = 0
    /\ nfail = 0
    /\ dropping = drop
    /\ hist = [issued |-> <<>>, expect |-> [seg \in IdSegs |-> NoExpect],
               deleted |-> {}, any_delete |-> FALSE, post_not_ok |-> FALSE,
               reissued |-> FALSE, ok_deletes |-> [seg \in IdSegs |-> 0],
               collided |-> FALSE]

\* start_crudster with the defaults (initialize_database False) on an empty
\* database
Init == Start(<<>>, {Shipped}, FALSE)

\* start_crudster with the defaults on a database that holds data
InitStocked == Start(Stocked, {Shipped}, FALSE)

\* start_crudster with initialize_database True on a database that holds
\* data: drop_database is sent and not awaited
InitWiped == Start(Stocked, {Shipped}, TRUE)

\* CRUDRequestHandler, or a subclass of it, mounted in an application with
\* any of the Configurations, on an empty database
InitConfigured == Start(<<>>, Configurations, FALSE)

\* handler s of slot r has run to a yield or to the end of its response
Deliver(r, s, others, hs) ==
    IF s.pc = "done"
    THEN /\ req' = Noted([others EXCEPT ![r] = Idle], s, collection)
         /\ response' = s
         /\ hist' = Answer(hs, s)
    ELSE /\ req' = Noted([others EXCEPT ![r] = s], s, collection)
         /\ response' = Idle
         /\ hist' = hs

\* A request arrives on the first free slot: it is routed, the handler is
\* built and its verb method runs to its first yield; a method that stops
\* before any yield is answered in the same turn of the IOLoop
Request(r, method, seg, body) ==
    /\ ~InFlight(r)
    /\ \A q \in Handlers : q < r => InFlight(q)
    /\ nreq < MaxRequests
    /\ nreq' = nreq + 1
    /\ LET h == Arriving(method, seg, body)
       IN  IF ~RouteMatches(seg)
           THEN /\ Deliver(r, NoRoute(h, settings.serve_traceback), Joined(h),
                        Arrive(hist, h))
                /\ generated' = generated
           ELSE LET routed == [h EXCEPT !.uuid = RouteGroup(seg)]
                    draws == Dispatch(routed, urandom(0), validator).uuid.type = "UUID"
                IN  \E i \in IF draws THEN Randoms ELSE {0} :
                      LET t == Settle(Dispatch(routed, urandom(i), validator),
                                      settings.serve_traceback)
                          \* history: the UUID drawn was that of a resource
                          \* that has been deleted
                          s == IF draws
                               THEN [t EXCEPT !.gone = UUID_hex(t.uuid) \in hist.deleted]
                               ELSE t
                          \* history: the UUID drawn goes to insert_one
                          sent == draws /\ s.pc = "await"
                      IN  /\ Deliver(r, s, Joined(h),
                                     [Arrive(hist, h) EXCEPT
                                        !.collided = @ \/ (sent /\ s.uuid \in generated)])
                          /\ generated' = IF sent THEN generated \cup {s.uuid}
                                          ELSE generated
    /\ UNCHANGED <<collection, indices, next_oid, settings, validator, nfail,
                   dropping>>

\* the handler of slot r has sent operation op to the store, which has not
\* executed it yet
Waiting(r, op) ==
    /\ req[r].pc = "await"
    /\ req[r].reply.state = "none"
    /\ req[r].call.op = op

\* the identifiers in the collection
Ids(coll) == {UUID_hex(coll[i].val[K_uuid]) : i \in 1..Len(coll)}

\* `after` is the collection with nothing changed but the document of the
\* resources under the identifier of the request, now the request's document
Replaces(self, after) ==
    /\ Len(after) = Len(collection)
    /\ \A i \in 1..Len(collection) :
          \/ after[i] = collection[i]
          \/ /\ UUID_hex(collection[i].val[K_uuid]) = self.seg
             /\ after[i] = DictSet(collection[i], K_document, self.document)

\* what the store operations of the request have done to the collection,
\* the last one leaving it as `after`
Effect(self, after) ==
    IF self.effect = "other" THEN "other"
    ELSE IF after = collection THEN self.effect
    ELSE IF Replaces(self, after) THEN "replaced"
    ELSE "other"

\* the handler of slot r with the store's answer to the operation it awaits,
\* which has left the collection as `after`
Replied(r, raised, value, after) ==
    [req[r] EXCEPT !.reply = [state |-> "ready", raised |-> raised, value |-> value],
                   !.present = Stored(collection, req[r].seg) # {},
                   !.ids_kept = Ids(after) = Ids(collection),
                   !.effect = Effect(req[r], after)]

\* The store has executed the operation of slot r and left the collection
\* as `after`: the future the coroutine has yielded holds the result (or
\* the exception), the coroutine itself has not run yet
Executed(r, raised, value, after) ==
    /\ \E h \in {Replied(r, raised, value, after)} :
          req' = Noted([req EXCEPT ![r] = h], h, after)
    /\ response' = Idle
    /\ UNCHANGED <<settings, validator, generated, nreq, dropping, hist>>

\* the store executes the insert_one of a post
InsertOne(r) ==
    /\ Waiting(r, "insert_one")
    /\ LET res == insert_one(collection, indices, req[r].call.a1, next_oid)
       IN  /\ collection' = res.coll
           /\ next_oid' = IF res.raised = "none" THEN next_oid + 1 ELSE next_oid
           /\ Executed(r, res.raised, res.value, res.coll)
    /\ UNCHANGED <<indices, nfail>>

\* the store executes a create_index of create_indices
CreateIndex(r) ==
    /\ Waiting(r, "create_index")
    /\ LET res == create_index(collection, indices, req[r].call.a1)
       IN  /\ indices' = res.idx
           /\ Executed(r, res.raised, res.value, collection)
    /\ UNCHANGED <<collection, next_oid, nfail>>

\* the store executes the find_one of get_one_document
FindOne(r) ==
    /\ Waiting(r, "find_one")
    /\ LET res == find_one(collection, req[r].call.a1)
       IN  Executed(r, res.raised, res.value, collection)
    /\ UNCHANGED <<collection, indices, next_oid, nfail>>

\* the store executes the query or getMore of the cursor of
\* get_many_documents
GetMore(r) ==
    /\ Waiting(r, "get_more")
    /\ Executed(r, "none", get_more(collection, req[r].cursor), collection)
    /\ UNCHANGED <<collection, indices, next_oid, nfail>>

\* the store executes the find_one_and_update of a put
FindOneAndUpdate(r) ==
    /\ Waiting(r, "find_one_and_update")
    /\ LET res == find_one_and_update(collection, req[r].call.a1, req[r].call.a2)
       IN  /\ collection' = res.coll
           /\ Executed(r, res.raised, res.value, res.coll)
    /\ UNCHANGED <<indices, next_oid, nfail>>

\* the store executes the delete_one of a delete
DeleteOne(r) ==
    /\ Waiting(r, "delete_one")
    /\ LET res == delete_one(collection, req[r].call.a1)
       IN  /\ collection' = res.coll
           /\ Executed(r, res.raised, res.value, res.coll)
    /\ UNCHANGED <<indices, next_oid, nfail>>

\* the awaited operation fails (connection lost, write refused): the store
\* is left as it was, the future the coroutine has yielded holds the
\* exception of the driver
StoreFails(r) ==
    /\ req[r].pc = "await"
    /\ req[r].reply.state = "none"
    /\ nfail < MaxFailures
    /\ nfail' = nfail + 1
    /\ Executed(r, "PyMongoError", None, collection)
    /\ UNCHANGED <<collection, indices, next_oid>>

\* the stretch of code that follows the operation the handler awaits
Resumed(self, index_args) ==
    CASE self.call.op = "insert_one" -> post_inserted(self, index_args)
      [] self.call.op = "create_index" -> post_indexed(self, index_args)
      [] self.call.op = "find_one" -> get_one_document_found(self)
      [] self.call.op = "get_more" -> get_many_documents_fetched(self)
      [] self.call.op = "find_one_and_update" -> put_updated(self)
      [] self.call.op = "delete_one" -> delete_deleted(self)

\* The IOLoop resumes the coroutine of slot r with the result of the
\* operation it has yielded: it runs to its next yield, or it stops, by a
\* return or by an exception
Resume(r) ==
    /\ req[r].pc = "await"
    /\ req[r].reply.state = "ready"
    /\ \E s \in {Resumed(req[r], settings.index_args)} :
          req' = [req EXCEPT ![r] = s]
    /\ response' = Idle
    /\ UNCHANGED <<collection, indices, next_oid, settings, validator,
                   generated, nreq, nfail, dropping, hist>>

\* the verb method, resumed from the yield of a coroutine it has called
Outer(self) ==
    CASE self.method = "POST" -> post_created(self)
      [] OTHER -> get_resumed(self)

\* the coroutine of slot r has stopped
Stopped(r) == req[r].pc \in {"returned", "raised"}

\* A coroutine the verb method has called (create_indices,
\* get_one_document, get_many_documents) has stopped: in the next turn of
\* the IOLoop the verb method is resumed with its result or its exception
Unwind(r) ==
    /\ Stopped(r)
    /\ req[r].depth > 0
    /\ \E s \in {Outer(req[r])} : req' = [req EXCEPT ![r] = s]
    /\ response' = Idle
    /\ UNCHANGED <<collection, indices, next_oid, settings, validator,
                   generated, nreq, nfail, dropping, hist>>

\* The verb method has stopped: in the next turn of the IOLoop
\* RequestHandler._execute finishes the response it has written, or sends
\* the error response for the exception
Finish(r) ==
    /\ Stopped(r)
    /\ req[r].depth = 0
    /\ \E s \in {Settle(req[r], settings.serve_traceback)} :
          Deliver(r, s, req, hist)
    /\ UNCHANGED <<collection, indices, next_oid, settings, validator,
                   generated, nreq, nfail, dropping>>

\* The store executes the drop_database that Crudster.initialize has sent
\* without awaiting it: the collection and its indices are gone
DropLands ==
    /\ dropping
    /\ dropping' = FALSE
    /\ collection' = <<>>
    /\ indices' = {}
    /\ response' = Idle
    /\ UNCHANGED <<next_oid, settings, validator, req, generated, nreq, nfail,
                   hist>>

\* the steps of the application as shipped
Next ==
    \/ \E r \in Handlers, m \in Methods, seg \in Paths :
          \E body \in Bodies(m) : Request(r, m, seg, body)
    \/ \E r \in Handlers : StoreFails(r)
    \/ \E r \in Handlers : InsertOne(r)
    \/ \E r \in Handlers : FindOne(r)
    \/ \E r \in Handlers : GetMore(r)
    \/ \E r \in Handlers : FindOneAndUpdate(r)
    \/ \E r \in Handlers : DeleteOne(r)
    \/ \E r \in Handlers : Resume(r)
    \/ \E r \in Handlers : Unwind(r)
    \/ \E r \in Handlers : Finish(r)

\* and those of an application that declares indices
NextConfigured ==
    \/ Next
    \/ \E r \in Handlers : CreateIndex(r)

\* and those of an application that wipes its database
NextWiped ==
    \/ Next
    \/ DropLands

Spec == Init /\ [][Next]_vars

SpecStocked == InitStocked /\ [][Next]_vars

SpecConfigured == InitConfigured /\ [][NextConfigured]_vars

SpecWiped == InitWiped /\ [][NextWiped]_vars

\* the next step of the request of slot r: the store executes the operation
\* it awaits or fails to, or the IOLoop runs what is ready to run
Step(r) ==
    \/ StoreFails(r)
    \/ InsertOne(r)
    \/ FindOne(r)
    \/ GetMore(r)
    \/ FindOneAndUpdate(r)
    \/ DeleteOne(r)
    \/ Resume(r)
    \/ Unwind(r)
    \/ Finish(r)

\* Step(r) can act exactly when a request is in flight on slot r: the
\* result of an awaited operation can always come, a coroutine that has a
\* result or has stopped can always be run, and no disjunct of Step(r) acts
\* on a free slot
EnabledIsInFlight ==
    \A r \in Handlers : InFlight(r) <=> ENABLED <<Step(r)>>_vars

\* the steps of the application as shipped, over MaxLive requests
NextLive == Next /\ nreq' <= MaxLive

\* Every store operation is answered in the end and the IOLoop runs
\* whatever is ready to run: weak fairness of Step(r) for every slot r,
\* that is WF_vars(Step(r)) written out with InFlight(r) in the place of
\* ENABLED <<Step(r)>>_vars, its equal by EnabledIsInFlight
FairSpec ==
    /\ Init
    /\ [][NextLive]_vars
    /\ \A r \in Handlers :
          \/ []<>(~InFlight(r))
          \/ []<><<Step(r)>>_vars

----------------------------------------------------------------------------
(* Properties.  They read `response`, the handler of the request that the   *)
(* last step has answered: every response is there in the state that        *)
(* follows it.                                                              *)

\* no store operation of the request failed
Healthy(s) == s.reply.raised = "none"

\* the response body is the one JSON text j
Wrote(s, j) == s.written = <<j>>

EmptyObject == JObj([k \in {} |-> JNull])

\* the body is JSON and the hook of the handler accepts the document
ValidBody(s) ==
    /\ s.body.wf
    /\ validate_document(json_loads(s.body.json), validator).raised = "none"

\* no request is in flight
Quiet == \A q \in Handlers : ~InFlight(q)

\* the document stored under identifier seg
StoredDocument(seg) ==
    collection[First(Stored(collection, seg))].val[K_document]

\* no insert_one has been sent a UUID that an earlier insert_one was sent,
\* or that a resource in the database at the start had
Distinct == ~hist.collided

\* C1: a GET on the identifier a POST of document d returned, with no PUT
\* or DELETE on it in between, responds 200 with body d
C1_RoundTrip ==
    (/\ response.method = "GET"
     /\ response.pc = "done"
     /\ response.expected.state = "POST"
     /\ Healthy(response))
    => /\ response.status = 200
       /\ Wrote(response, response.expected.doc)

\* C2: a PUT of a valid document d' on an identifier that has a resource
\* responds 200 with {} and a GET that follows, with no PUT or DELETE on
\* the identifier in between, responds 200 with body d'
C2_PutThenGet ==
    /\ (/\ response.method = "PUT"
        /\ response.pc = "done"
        /\ response.existed /\ response.alone
        /\ ValidBody(response)
        /\ Healthy(response))
       => /\ response.status = 200
          /\ Wrote(response, EmptyObject)
    /\ (/\ response.method = "GET"
        /\ response.pc = "done"
        /\ response.expected.state = "PUT"
        /\ Healthy(response))
       => /\ response.status = 200
          /\ Wrote(response, response.expected.doc)

\* C3: a PUT leaves the set of identifiers of the collection as it was, and
\* a PUT whose update found no resource under its identifier responds 404
C3_PutNeverCreates ==
    (response.method = "PUT" /\ response.pc = "done")
    => /\ response.ids_kept
       /\ (response.ops > 0 /\ Healthy(response) /\ ~response.present)
          => response.status = 404

\* a PUT on a resource that a DELETE removed while the PUT was in flight
C3_Witness ==
    /\ response.method = "PUT"
    /\ response.status = 404
    /\ response.existed
    /\ ~response.present
    /\ response.seg \in hist.deleted

\* C4: a DELETE on an existing resource, alone in flight, responds 200 with
\* {} and removes the resource; a DELETE on an identifier whose DELETE was
\* answered 200 before responds 404
C4_DeleteTwice ==
    (response.method = "DELETE" /\ response.pc = "done" /\ Healthy(response))
    => /\ (response.existed /\ response.alone)
          => /\ response.status = 200
             /\ Wrote(response, EmptyObject)
             /\ Stored(collection, response.seg) = {}
       /\ response.gone => response.status = 404

\* what C4 states holds as long as no UUID goes to insert_one twice
DeleteTwice_Distinct == Distinct => C4_DeleteTwice

\* C5: when every POST so far responded 200 and no DELETE was sent, a GET
\* with no identifier, alone in flight, responds 200 with an object whose
\* keys are the identifiers the POSTs returned, one entry each, and whose
\* values are the documents stored under them
C5_ListAll ==
    (/\ response.method = "GET"
     /\ response.pc = "done"
     /\ response.seg = <<>>
     /\ response.alone
     /\ Quiet
     /\ Healthy(response)
     /\ ~hist.any_delete
     /\ ~hist.post_not_ok)
    => /\ response.status = 200
       /\ Len(response.written) = 1
       /\ response.written[1].type = "object"
       /\ DOMAIN response.written[1].val = {hist.issued[n] : n \in 1..Len(hist.issued)}
       /\ Cardinality(DOMAIN response.written[1].val) = Len(hist.issued)
       /\ \A id \in DOMAIN response.written[1].val :
             /\ Stored(collection, id) # {}
             /\ response.written[1].val[id] = json_dumps(StoredDocument(id))

\* what C5 states holds as long as no UUID goes to insert_one twice
ListAll_Distinct == Distinct => C5_ListAll

\* C6: the identifiers POSTs returned are pairwise distinct, no two
\* documents of the collection carry the same identifier, and no POST
\* returned an identifier that a DELETE had removed
C6_UniqueIds ==
    /\ \A m, n \in 1..Len(hist.issued) : m # n => hist.issued[m] # hist.issued[n]
    /\ \A m, n \in 1..Len(collection) :
          m # n => collection[m].val[K_uuid] # collection[n].val[K_uuid]
    /\ ~hist.reissued

\* what C6 states holds as long as no UUID goes to insert_one twice
UniqueIds_Distinct == Distinct => C6_UniqueIds

\* C7: a POST with an identifier in the path responds 400 and sends nothing
\* to the store
C7_PostWithId ==
    (response.method = "POST" /\ response.pc = "done" /\ response.seg \in IdSegs)
    => /\ response.status = 400
       /\ response.ops = 0

\* a POST on the identifier of an existing resource, with a body that is
\* not JSON, has been answered
C7_Witness ==
    /\ response.method = "POST"
    /\ response.seg \in IdSegs
    /\ response.existed
    /\ ~response.body.wf
    /\ response.status = 400

\* C8: a POST without identifier or a PUT with identifier whose body is not
\* JSON responds 400, and sends nothing to the store
C8_MalformedBody ==
    (/\ response.pc = "done"
     /\ \/ response.method = "POST" /\ response.seg = <<>>
        \/ response.method = "PUT" /\ response.seg \in IdSegs
     /\ ~response.body.wf)
    => /\ response.status = 400
       /\ response.ops = 0

\* C9: a request outside the verb table (POST with identifier, PUT or DELETE
\* without, a path that is no identifier) responds 400 or 404 and sends
\* nothing to the store
C9_OutsideTable ==
    (/\ response.pc = "done"
     /\ \/ response.method = "POST" /\ response.seg # <<>>
        \/ response.method \in {"PUT", "DELETE"} /\ response.seg = <<>>
        \/ response.seg = Malformed)
    => /\ response.status \in {400, 404}
       /\ response.ops = 0

\* C10: a PUT with no identifier in the path responds 400 and sends nothing
\* to the store
C10_PutWithoutId ==
    (response.method = "PUT" /\ response.pc = "done" /\ response.seg = <<>>)
    => /\ response.status = 400
       /\ response.ops = 0

\* a PUT with no identifier and a body that is not JSON has been answered
C10_Witness ==
    /\ response.method = "PUT"
    /\ response.seg = <<>>
    /\ ~response.body.wf
    /\ response.status = 400

\* the request has a body that is JSON and its verb method gets as far as
\* decoding it: a POST without identifier, a PUT with one
Decoded(s) ==
    /\ s.body.wf
    /\ \/ s.method = "POST" /\ s.seg = <<>>
       \/ s.method = "PUT" /\ s.seg \in IdSegs

\* the hook of the handler rejects the document of the request
Rejected(s) == validate_document(json_loads(s.body.json), validator).raised # "none"

\* C11: a POST or PUT whose decoded document the validation hook rejects
\* responds 400 without a store operation, the collection left as it was;
\* a document the hook accepts reaches the store, and the default hook
\* accepts every document
C11_ValidationFirst ==
    (response.pc = "done" /\ Decoded(response))
    => /\ Rejected(response) => /\ response.status = 400
                                 /\ response.ops = 0
                                 /\ response.effect = "none"
       /\ ~Rejected(response) => response.ops > 0
       /\ validator = "default" => ~Rejected(response) /\ response.status # 400

\* a PUT on an existing resource has been rejected by the hook
C11_Witness ==
    /\ response.method = "PUT"
    /\ Decoded(response)
    /\ Rejected(response)
    /\ response.existed
    /\ response.status = 400
    /\ response.ops = 0

\* C12: a request one of whose store operations failed responds 500
C12_StoreFailure ==
    (response.pc = "done" /\ ~Healthy(response))
    => /\ response.status = 500
       /\ response.ops > 0

\* a POST whose insert went through and whose create_index failed
C12_Witness ==
    /\ response.method = "POST"
    /\ response.call.op = "create_index"
    /\ ~Healthy(response)
    /\ response.status = 500

\* the indices the application declares
Declared == {settings.index_args[k] : k \in 1..Len(settings.index_args)}

\* C13: only declared indices are created, none before an insert_one has
\* gone through, and once a POST has responded 200 all of them exist,
\* whatever POSTs run later or were in flight with it
C13_LazyIndices ==
    /\ indices \subseteq Declared
    /\ indices # {} => next_oid > 1
    /\ Len(hist.issued) > 0 => indices = Declared

\* two POSTs that were in flight together have both created the index
C13_Witness ==
    /\ Len(hist.issued) = 2
    /\ response.method = "POST"
    /\ response.status = 200
    /\ ~response.alone
    /\ response.k = 1
    /\ indices = Declared
    /\ indices # {}

\* C14: a POST that responds 200 writes a JSON object whose single key is
\* `id` and whose value is the hex of the UUID generated for the request, a
\* string the route accepts as identifier and the one GET without
\* identifier makes of the UUID of the inserted resource
C14_PostResponse ==
    (response.method = "POST" /\ response.pc = "done" /\ response.status = 200)
    => /\ Len(response.written) = 1
       /\ response.written[1].type = "object"
       /\ DOMAIN response.written[1].val = {K_ident}
       /\ response.written[1].val[K_ident] = JStr(UUID_hex(response.uuid))
       /\ MatchesGroup(UUID_hex(response.uuid))
       /\ \A i \in 1..Len(collection) :
             collection[i].val[K_id] = response.result
             => UUID_hex(collection[i].val[K_uuid]) = UUID_hex(response.uuid)

\* what failed requests write when tracebacks are off
ErrorBody(status) ==
    JObj([k \in {K_status_code, K_reason} |->
            IF k = K_status_code THEN JNum(status) ELSE JStr(Responses(status))])

\* C15: a request whose verb method raised (status 400, 404 or 500) is
\* finished once; with serve_traceback off its body is the JSON object
\* {status_code, reason} with the status of the response, with it on the
\* body is the traceback as plain text
C15_ErrorBody ==
    (/\ response.pc = "done"
     /\ response.status \in {400, 404, 500}
     /\ RouteMatches(response.seg))
    => /\ response.finished = 1
       /\ IF settings.serve_traceback
          THEN /\ response.content_type = "text/plain"
               /\ Len(response.written) = 1
               /\ response.written[1].type = "traceback"
          ELSE /\ response.content_type = "application/json; charset=UTF-8"
               /\ Wrote(response, ErrorBody(response.status))

\* a store failure has been answered with serve_traceback off
C15_Witness ==
    /\ response.pc = "done"
    /\ response.status = 500
    /\ ~Healthy(response)
    /\ ~settings.serve_traceback
    /\ Wrote(response, ErrorBody(500))

\* C16: of two DELETEs in flight together on an existing identifier, both
\* served by the store, one responds 200 and the other 404, whichever of the
\* two is answered first (the formula speaks once both are answered); a PUT
\* responds 200 exactly when the resource was in the collection as its
\* find_one_and_update ran
C16_ConcurrentWriters ==
    /\ (/\ response.method = "DELETE"
        /\ response.pc = "done"
        /\ Healthy(response)
        /\ response.existed
        /\ response.rivals = 1
        /\ response.rival_status \in {200, 404})
       => /\ response.status \in {200, 404}
          /\ response.status # response.rival_status
    /\ (/\ response.method = "PUT"
        /\ response.pc = "done"
        /\ response.ops > 0
        /\ Healthy(response))
       => (response.status = 200 <=> response.present)
    /\ (response.method = "PUT" /\ response.pc = "done" /\ response.status = 200)
       => response.ops > 0 /\ Healthy(response)

\* what C16 states holds as long as no UUID goes to insert_one twice
ConcurrentWriters_Distinct == Distinct => C16_ConcurrentWriters

\* C17: the store operation of a PUT changes nothing in the collection but
\* the document of the resource under its identifier, which becomes the
\* document of the request; the store operations of a GET change nothing
C17_PutFrame ==
    /\ (response.method = "PUT" /\ response.pc = "done")
       => /\ response.effect \in {"none", "replaced"}
          /\ response.status = 200
             => \/ response.effect = "replaced"
                \/ response.result.val[K_document] = response.document
    /\ (response.method = "GET" /\ response.pc = "done")
       => response.effect = "none"

\* a PUT has replaced an object by an array, next to another resource
C17_Witness ==
    /\ response.method = "PUT"
    /\ response.status = 200
    /\ response.effect = "replaced"
    /\ response.result.val[K_document].type = "dict"
    /\ response.document.type = "list"
    /\ Len(collection) = 2
    /\ \E i \in 1..2 : collection[i].val[K_document].type = "dict"

\* C18: a POST whose store operations have changed the collection responds
\* 200 with the identifier of the resource it inserted; a POST that does
\* not respond 200 has changed nothing in the collection
C18_PostAllOrNothing ==
    (response.method = "POST" /\ response.pc = "done")
    => /\ response.effect # "none"
          => /\ response.status = 200
             /\ Len(response.written) = 1
             /\ \E k \in DOMAIN response.written[1].val :
                   response.written[1].val[k] = JStr(UUID_hex(response.uuid))
       /\ response.status # 200 => response.effect = "none"

\* the pairs of JSON texts the pairs of Python values are written as
Dumped(pairs) == {<<p[1], json_dumps(p[2])>> : p \in pairs}

\* C19: every entry of the 200 response to a GET without identifier is an
\* (identifier, document) pair the collection has held at some moment
\* since the request arrived, and the response is one JSON object (a key
\* occurs once)
C19_ListNeverInvents ==
    (/\ response.method = "GET"
     /\ response.pc = "done"
     /\ response.seg = <<>>
     /\ response.status = 200)
    => /\ Len(response.written) = 1
       /\ response.written[1].type = "object"
       /\ \A id \in DOMAIN response.written[1].val :
             <<id, response.written[1].val[id]>> \in Dumped(response.seen)

\* a list has been answered with an entry that a writer, in flight with the
\* GET, had changed or removed by the time of the response
C19_Witness ==
    /\ response.method = "GET"
    /\ response.seg = <<>>
    /\ response.status = 200
    /\ ~response.alone
    /\ response.ops >= 2
    /\ \E id \in DOMAIN response.written[1].val :
          <<id, response.written[1].val[id]>> \notin Dumped(Pairs(collection))

\* C20: every response is finished once, with status 200, 400, 404 or 500,
\* and every request in flight is answered in the end
C20_Terminates ==
    /\ [](response.pc = "done"
          => /\ response.finished = 1
             /\ response.status \in {200, 400, 404, 500})
    /\ \A r \in Handlers : InFlight(r) ~> ~InFlight(r)

\* a GET without identifier has been answered after a cursor fetch that
\* returned the resource of a POST in flight with it
C20_Witness ==
    /\ response.method = "GET"
    /\ response.seg = <<>>
    /\ response.pc = "done"
    /\ response.status = 200
    /\ response.ops >= 1
    /\ ~response.alone
    /\ response.finished = 1
    /\ DOMAIN response.written[1].val # {}

====
